---- MODULE Spec2Model ----
(***************************************************************************)
(* A model of the SEO crawler of src/app.py: the script run that is        *)
(* started by the "Start crawl" button (lines 219-282), the recursive      *)
(* crawl (lines 111-173), the concurrent audit of links and images (lines  *)
(* 175-216), the pickled crawl state (lines 100-108) and the diagnostics   *)
(* tables (lines 259-282).                                                 *)
(*                                                                         *)
(* A behaviour is a sequence of script runs against one web site.  The     *)
(* recursion of crawl() is an explicit stack of frames; one step is one    *)
(* call of crawl() up to the start of its loop over links_here, one        *)
(* iteration of that loop, or one return.  The audit's probes complete     *)
(* one by one in any order.                                                *)
(***************************************************************************)
EXTENDS Integers, Sequences, FiniteSets, TLC

(***************************************************************************)
(* Bounds of the model.                                                    *)
(***************************************************************************)
\* Number of script runs in one behaviour.
MaxRuns == 2
\* Largest value of the "Max depth" slider that is tried (the slider: 0..6).
MaxDepthTried == 2

(***************************************************************************)
(* Program constants.                                                      *)
(***************************************************************************)
\* SAVE_EVERY of line 92 is 50; the model scales it down to 2 so that a
\* checkpoint is written on a site of three pages.
SAVE_EVERY == 2
\* The value fetch_head returns for an unreachable URL (line 180).
None == -1

(***************************************************************************)
(* URLs.  "a" is the base URL; "b" and "c" are pages of the same           *)
(* registered domain; "x" is a page of another registered domain; "i" is   *)
(* an image.  An anchor's href is one of these, "b#f" (the page "b" with a *)
(* fragment) or "m" (a mailto: link).                                      *)
(***************************************************************************)
URLs == {"a", "b", "c", "d", "x"}
Imgs == {"i"}
Hrefs == URLs \cup {"b#f", "m"}
start_url == "a"
base_url == start_url

\* urljoin(url, href.split("#")[0]) of line 153: the fragment is dropped.
Resolve(url, href) == IF href = "b#f" THEN "b" ELSE href

\* link.startswith(("mailto:", "tel:", "javascript:")) of line 154.
IsPseudoLink(link) == link = "m"

\* tldextract.extract(u).registered_domain
RegisteredDomain(u) == IF u = "x" THEN "other.com" ELSE "site.com"

\* urlparse(link).scheme in ("http", "https") of line 170.
HasHttpScheme(link) == link \in URLs \cup Imgs

is_internal(base, link) ==
    LET b == RegisteredDomain(base)
        l == RegisteredDomain(link)
    IN  (b = l) \/ (l = "")

(***************************************************************************)
(* Small helpers for dicts (functions with a growing domain) and lists     *)
(* whose order no claim reads (bags).                                      *)
(***************************************************************************)
EmptyMap == [k \in {} |-> 0]
Get(d, k, default) == IF k \in DOMAIN d THEN d[k] ELSE default
Put(d, k, v) == [x \in DOMAIN d \cup {k} |-> IF x = k THEN v ELSE d[x]]
Copies(B, e) == IF e \in DOMAIN B THEN B[e] ELSE 0
BagAddAll(B, S) ==
    [e \in DOMAIN B \cup S |-> Copies(B, e) + (IF e \in S THEN 1 ELSE 0)]
Range(s) == {s[i] : i \in DOMAIN s}

(***************************************************************************)
(* The web site and the sidebar settings: the inputs of a behaviour.       *)
(*   kind[u]      what GET u gives: "html", "error" (the request raises),  *)
(*                "non200" or "nonhtml"                                    *)
(*   anchors[u]   the href of every <a href> of the page, in page order    *)
(*   canonical[u] the href of <link rel=canonical>, "" when absent         *)
(*   title[u]     the text of the page's <title>, a sequence of characters *)
(*   description[u] the content of its <meta name=description>, likewise   *)
(*   imgs[u]      the src of every <img src> of the page                   *)
(*   head[u]      what HEAD u gives: a status code, or None (unreachable)  *)
(*   robots       GET /robots.txt: raised reports that the request or the  *)
(*                parse raised; status and disallow are the response's     *)
(*                status code and the URLs its body disallows              *)
(*   sitemap      the <loc> entries of /sitemap.xml, <<>> on any failure   *)
(***************************************************************************)
Kinds == {"html", "error", "non200", "nonhtml"}
Statuses == {200, 404, None}

BaseAnchors == [u \in URLs |->
    CASE u = "a" -> <<"b", "c">> [] u = "b" -> <<"c">> [] OTHER -> <<>>]

BaseSite ==
    [kind      |-> [u \in URLs |-> "html"],
     anchors   |-> BaseAnchors,
     canonical |-> [u \in URLs |-> ""],
     title     |-> [u \in URLs |-> IF u = "c" THEN <<"H">>
                                     ELSE <<"H", "i">>],
     description |-> [u \in URLs |-> <<>>],
     imgs      |-> [u \in URLs |-> <<>>],
     head      |-> [u \in URLs \cup Imgs |-> 200],
     robots    |-> [raised |-> TRUE, status |-> 200, disallow |-> {}],
     sitemap   |-> <<>>]

BaseCfg == [max_depth |-> 2, max_pages |-> 0, excluded |-> {}]

\* Sites that differ in their link structure.
LinkInputs ==
    { [site |-> [BaseSite EXCEPT !.anchors =
                    [u \in URLs |-> CASE u = "a" -> la [] u = "b" -> lb
                                      [] u = "c" -> lc [] OTHER -> <<>>]],
       cfg  |-> BaseCfg] :
      la \in {<<"b", "c">>, <<"b", "b#f">>, <<"c", "m">>, <<"b", "x">>,
               <<"a", "c">>},
      lb \in {<<>>, <<"c">>, <<"a">>, <<"c", "c">>},
      lc \in {<<>>, <<"b">>, <<"a", "x">>} }

\* Sites some of whose pages cannot be parsed.
FetchInputs ==
    { [site |-> [BaseSite EXCEPT !.kind =
                    [u \in URLs |-> CASE u = "a" -> ka [] u = "b" -> kb
                                      [] u = "c" -> kc [] OTHER -> "html"]],
       cfg  |-> BaseCfg] :
      ka \in {"html", "error"}, kb \in Kinds, kc \in {"html", "non200"} }

\* Sites whose links and images answer the audit's probes differently.
AuditInputs ==
    { [site |-> [BaseSite EXCEPT
                    !.anchors = [u \in URLs |-> IF u = "a" THEN <<"b", "x">>
                                                ELSE <<>>],
                    !.imgs = [u \in URLs |-> IF u = "a" THEN gi ELSE <<>>],
                    !.head = [u \in URLs \cup Imgs |->
                                 CASE u = "b" -> hb [] u = "x" -> hx
                                   [] u = "i" -> hi [] OTHER -> 200]],
       cfg  |-> BaseCfg] :
      hb \in Statuses, hx \in Statuses, hi \in {200, 404},
      gi \in {<<>>, <<"i", "i">>} }

\* Sites whose pages declare canonical targets.
CanonInputs ==
    { [site |-> [BaseSite EXCEPT
                    !.anchors = [u \in URLs |-> IF u = "a" THEN la ELSE <<>>],
                    !.canonical = [u \in URLs |-> CASE u = "a" -> ca
                                                    [] u = "b" -> cb
                                                    [] OTHER -> ""]],
       cfg  |-> BaseCfg] :
      la \in {<<"b">>, <<"b", "x">>, <<"b", "c">>},
      ca \in {"", "a", "b", "c", "x"},
      cb \in {"", "a", "x"} }

\* Sites whose pages share titles and descriptions, up to case and blanks.
Titles == {<<"H", "i">>, <<"h", "i", " ">>, <<"H">>}
Descriptions == {<<>>, <<"i">>}
DupInputs ==
    { [site |-> [BaseSite EXCEPT
                    !.title = [u \in URLs |-> CASE u = "b" -> tb
                                                [] u = "c" -> tc
                                                [] OTHER -> <<"H", "i">>],
                    !.description = [u \in URLs |-> CASE u = "b" -> db
                                                      [] u = "c" -> dc
                                                      [] OTHER -> <<>>]],
       cfg  |-> BaseCfg] :
      tb \in Titles, tc \in Titles, db \in Descriptions,
      dc \in Descriptions }

\* Sites with a chain of links as long as the largest max depth tried, a
\* shortcut into it, and seeds inside it.
DepthInputs ==
    { [site |-> [BaseSite EXCEPT
                    !.anchors = [u \in URLs |-> CASE u = "a" -> la
                                                  [] u = "b" -> <<"c">>
                                                  [] u = "c" -> <<"d">>
                                                  [] OTHER -> <<>>],
                    !.sitemap = sm],
       cfg  |-> BaseCfg] :
      la \in {<<"b">>, <<"b", "c">>},
      sm \in {<<>>, <<"a", "b">>} }

\* Sites with a robots.txt, a sitemap, path patterns and a page budget.
RobotsInputs ==
    { [site |-> [BaseSite EXCEPT !.robots =
                    [raised |-> r, status |-> s, disallow |-> dis]],
       cfg  |-> BaseCfg] :
      r \in BOOLEAN, s \in {200, 503}, dis \in {{}, {"c"}, {"a"}} }

SettingsInputs ==
    { [site |-> [BaseSite EXCEPT !.sitemap = sm],
       cfg  |-> [BaseCfg EXCEPT !.max_pages = mp, !.excluded = ex]] :
      sm \in {<<>>, <<"b", "a">>, <<"x", "b">>},
      mp \in 0..2,
      ex \in {{}, {"c"}} }

Inputs == LinkInputs \cup FetchInputs \cup AuditInputs \cup CanonInputs
          \cup RobotsInputs \cup SettingsInputs \cup DupInputs
          \cup DepthInputs

\* allowed_path(urlparse(url).path) of line 115; cfg.excluded are the URLs
\* whose path fails the include pattern or matches the exclude pattern.
allowed_path(cfg, url) == url \notin cfg.excluded

\* polite_get(u) as crawl() sees it (lines 119-120).
Fetch(site, u) == site.kind[u]

\* fetch_robots: the parser holds the rules of whatever body came back, and
\* no rule when the request or the parse raised.  The value is the set of
\* URLs rp.is_allowed refuses.
fetch_robots(site) == IF site.robots.raised THEN {} ELSE site.robots.disallow

\* seed_from_sitemap(base_url) or [base_url] of line 229.
Seeds(site) == IF site.sitemap = <<>> THEN <<base_url>> ELSE site.sitemap

(***************************************************************************)
(* State.                                                                  *)
(***************************************************************************)
VARIABLES
    site, cfg,          \* the inputs: the web site and the sidebar settings
    run,                \* number of script runs started so far
    phase,              \* where the current run is: "idle" (none started),
                        \* "crawl", "links", "imgs", "audited", "done",
                        \* "crashed" (uncaught exception), "interrupted"
    resumed,            \* the current run loaded a saved state (line 222)
    visited, rows, broken_links, out_links, in_links,
    duplicate_map, canon_map, image_rows,     \* the containers, lines 92-98
    pages_crawled,      \* line 92
    state_file,         \* STATE_FILE on disk: absent, corrupt, or a state
    rp,                 \* the robots parser: the URLs it refuses
    seeds_left,         \* seeds the loop of line 229 has not reached yet
    stack,              \* the active crawl() calls that parsed their page
    pending,            \* probes of the running asyncio.gather not yet back
    status_map, img_status,        \* results of the probes, lines 192-193
    dup_clusters, can_issues, orphans,      \* the tables of lines 259-282
    fetch_count,        \* history: GETs crawl() issued in this run, per URL
    skipped,            \* history: crawl() calls of this run that returned
                        \* before admission, as <<url, reason>>
    recovering,         \* history: this run resumed from the checkpoint of
                        \* a run that started fresh and was interrupted
    loaded,             \* history: VisitedSet and PageRecords this run
                        \* loaded from the state file (empty if it did not)
    admitted,           \* history: <<url, depth>> of every crawl() call of
                        \* this run that passed lines 113-115
    today,              \* datetime.date.today() as line 337 last read it
    history,            \* HISTORY_DIR: the table stored under each date
    compared,           \* the snapshot line 341 last read for the diff
    snap_log            \* history: the snapshots written so far, in order

containers == <<visited, rows, broken_links, out_links, in_links,
                duplicate_map, canon_map, image_rows>>
audit_vars == <<pending, status_map, img_status>>
tables == <<dup_clusters, can_issues, orphans>>
snapshots == <<today, history, compared, snap_log>>
vars == <<snapshots, site, cfg, run, phase, resumed, containers, pages_crawled,
          state_file, rp, seeds_left, stack, audit_vars, tables,
          fetch_count, skipped, recovering, loaded,
                   admitted>>

\* The tuple save_state pickles (lines 101-102).
StateTuple(v, r, bl, ol, il, dm, cm, ir) ==
    [visited |-> v, rows |-> r, broken_links |-> bl, out_links |-> ol,
     in_links |-> il, duplicate_map |-> dm, canon_map |-> cm,
     image_rows |-> ir]

\* Lines 92-98, and the value load_state returns for a missing file.
EmptyState ==
    StateTuple({}, <<>>, EmptyMap, EmptyMap, EmptyMap, EmptyMap, EmptyMap,
               <<>>)

Absent == [kind |-> "absent", st |-> EmptyState]
Corrupt == [kind |-> "corrupt", st |-> EmptyState]

\* save_state(): the file holds the pickled tuple.
save_state(st) == [kind |-> "ok", st |-> st]

RowURLs(r) == {r[i].URL : i \in DOMAIN r}
NoFetches == [u \in URLs |-> 0]
NothingLoaded == [visited |-> {}, rows |-> <<>>]

\* What `compared` holds when line 340 found no previous file.
NoSnapshot == [date |-> 0, df |-> <<>>]

Init ==
    /\ \E inp \in Inputs : site = inp.site /\ cfg = inp.cfg
    /\ state_file \in {Absent, Corrupt}
    /\ run = 0
    /\ phase = "idle"
    /\ resumed = FALSE
    /\ visited = {} /\ rows = <<>> /\ broken_links = EmptyMap
    /\ out_links = EmptyMap /\ in_links = EmptyMap
    /\ duplicate_map = EmptyMap /\ canon_map = EmptyMap /\ image_rows = <<>>
    /\ pages_crawled = 0
    /\ rp = {}
    /\ seeds_left = <<>>
    /\ stack = <<>>
    /\ pending = {} /\ status_map = EmptyMap /\ img_status = EmptyMap
    /\ dup_clusters = EmptyMap /\ can_issues = EmptyMap /\ orphans = {}
    /\ fetch_count = NoFetches
    /\ skipped = {}
    /\ recovering = FALSE
    /\ loaded = NothingLoaded
    /\ admitted = {}
    /\ today = 1
    /\ history = EmptyMap
    /\ compared = NoSnapshot
    /\ snap_log = <<>>

\* load_state(): the pickled tuple, or the empty containers of line 108 when
\* there is no file (a corrupt file never gets here: pickle.load raises).
load_state_without_rows(f) == [f.st EXCEPT !.rows = <<>>]
load_state(f) == f.st

\* The script starts from its top: every global is the fresh value of
\* lines 92-98 and the history of the previous run is gone.
FreshGlobals(st) ==
    /\ visited' = st.visited /\ rows' = st.rows
    /\ broken_links' = st.broken_links
    /\ out_links' = st.out_links /\ in_links' = st.in_links
    /\ duplicate_map' = st.duplicate_map /\ canon_map' = st.canon_map
    /\ image_rows' = st.image_rows
    /\ pages_crawled' = 0
    /\ stack' = <<>>
    /\ pending' = {} /\ status_map' = EmptyMap /\ img_status' = EmptyMap
    /\ dup_clusters' = EmptyMap /\ can_issues' = EmptyMap /\ orphans' = {}
    /\ fetch_count' = NoFetches
    /\ skipped' = {}
    /\ admitted' = {}

(***************************************************************************)
(* Lines 219-229: the button starts a run.  resume is the sidebar          *)
(* checkbox and depth the "Max depth" slider, both read anew by every run  *)
(* (lines 47-48).  pickle.load raises on a corrupt file and nothing        *)
(* catches it: the run ends there.                                         *)
(***************************************************************************)
StartRun(resume, depth) ==
    /\ phase \in {"idle", "done", "crashed", "interrupted"}
    /\ run < MaxRuns
    /\ run' = run + 1
    /\ cfg' = [cfg EXCEPT !.max_depth = depth]
    /\ UNCHANGED <<site, snapshots>>
    /\ IF resume /\ state_file.kind = "corrupt"
       THEN /\ phase' = "crashed"
            /\ FreshGlobals(EmptyState)
            /\ resumed' = FALSE
            /\ recovering' = FALSE
            /\ loaded' = NothingLoaded
            /\ rp' = {}
            /\ seeds_left' = <<>>
            /\ UNCHANGED state_file
       ELSE /\ phase' = "crawl"
            /\ resumed' = (resume /\ state_file.kind = "ok")
            /\ recovering' = (resume /\ state_file.kind = "ok"
                              /\ phase = "interrupted" /\ ~resumed)
            /\ FreshGlobals(IF resume THEN load_state(state_file)
                            ELSE EmptyState)
            /\ loaded' = IF resume
                          THEN [visited |-> state_file.st.visited,
                                rows |-> state_file.st.rows]
                          ELSE NothingLoaded
            /\ state_file' = IF resume THEN state_file ELSE Absent
            /\ rp' = fetch_robots(site)
            /\ seeds_left' = Seeds(site)

(***************************************************************************)
(* crawl(url, base, depth, rp), lines 111-173.                             *)
(***************************************************************************)
\* `url in visited` of line 113.
AlreadyVisitedNever(v, url) == FALSE
AlreadyVisited(v, url) == url \in v

\* visited.add(url) of line 116.
VisitedAddNothing(v, url) == v
VisitedAdd(v, url) == v \cup {url}

\* `depth > max_depth` of line 113.
DepthExceededNever(depth, max) == FALSE
DepthExceededOffByOne(depth, max) == depth > max + 1
DepthExceeded(depth, max) == depth > max

\* Line 120 and the except of line 172: the response cannot be parsed.
UnusableOnlyIfRaised(r) == r = "error"
Unusable(r) == r # "html"

\* Lines 113-115: why the call returns before admitting url, "" if it does
\* not.
SkipReasonOneName(url, depth) ==
    IF AlreadyVisited(visited, url) \/ DepthExceeded(depth, cfg.max_depth)
    THEN "visited"
    ELSE IF url \in rp THEN "robots"
    ELSE IF ~allowed_path(cfg, url) THEN "path"
    ELSE ""
SkipReason(url, depth) ==
    IF AlreadyVisited(visited, url) THEN "visited"
    ELSE IF DepthExceeded(depth, cfg.max_depth) THEN "depth"
    ELSE IF url \in rp THEN "robots"
    ELSE IF ~allowed_path(cfg, url) THEN "path"
    ELSE ""

\* str.strip(): the blanks at both ends are dropped.
RECURSIVE strip(_)
strip(str) ==
    IF str = <<>> THEN <<>>
    ELSE IF Head(str) = " " THEN strip(Tail(str))
    ELSE IF str[Len(str)] = " " THEN strip(SubSeq(str, 1, Len(str) - 1))
    ELSE str

\* str.lower(), character by character.
lower(str) ==
    [i \in DOMAIN str |-> CASE str[i] = "H" -> "h" [] str[i] = "I" -> "i"
                             [] OTHER -> str[i]]

\* (title + description).lower().strip() of line 147.
DupKey(title, description) == strip(lower(title \o description))

\* Lines 151-158: the loop over the page's anchors.  acc holds links_here,
\* out_links and in_links.
RECURSIVE LinkProcessing(_, _, _)
LinkProcessing(url, hrefs, acc) ==
    IF hrefs = <<>> THEN acc
    ELSE LET link == Resolve(url, Head(hrefs))
         IN  IF IsPseudoLink(link)
             THEN LinkProcessing(url, Tail(hrefs), acc)
             ELSE LinkProcessing(url, Tail(hrefs),
                    [links_here |-> acc.links_here \cup {link},
                     out_links  |-> Put(acc.out_links, url,
                                        Get(acc.out_links, url, {})
                                            \cup {link}),
                     in_links   |-> Put(acc.in_links, link,
                                        Get(acc.in_links, link, 0) + 1)])

\* Lines 160-164: one image row per <img src>, not yet annotated.
ImageRowsOf(url, srcs) ==
    [i \in 1..Len(srcs) |->
        [Page |-> url, Image |-> srcs[i], Annotated |-> FALSE,
         Status |-> None]]

\* One call crawl(url, base_url, depth, rp), up to the start of its loop
\* over links_here (line 169) or to its return; below is the stack of the
\* calls that are waiting for it.
CrawlCall(url, depth, below) ==
    LET why == SkipReason(url, depth) IN
    IF why # ""
    THEN /\ skipped' = skipped \cup {<<url, why>>}
         /\ stack' = below
         /\ UNCHANGED <<containers, pages_crawled, state_file, fetch_count,
                        admitted>>
    ELSE LET v == VisitedAdd(visited, url) IN
         /\ visited' = v
         /\ fetch_count' = [fetch_count EXCEPT ![url] = @ + 1]
         /\ admitted' = admitted \cup {<<url, depth>>}
         /\ UNCHANGED <<skipped, broken_links>>
         /\ IF Unusable(Fetch(site, url))
            THEN \* the request raised (line 172) or line 120 returned
                 /\ stack' = below
                 /\ UNCHANGED <<rows, out_links, in_links, duplicate_map,
                                canon_map, image_rows, pages_crawled,
                                state_file>>
            ELSE LET title == strip(site.title[url])
                     description == strip(site.description[url])
                     canonical == site.canonical[url]
                     r == Append(rows, [URL |-> url, Title |-> title,
                                        Description |-> description,
                                        Canonical |-> canonical])
                     cm == Put(canon_map, url, canonical)
                     dup_key == DupKey(title, description)
                     dm == Put(duplicate_map, dup_key,
                               Append(Get(duplicate_map, dup_key, <<>>),
                                      url))
                     lp == LinkProcessing(url, site.anchors[url],
                              [links_here |-> {}, out_links |-> out_links,
                               in_links |-> in_links])
                     ir == image_rows \o ImageRowsOf(url, site.imgs[url])
                     n == pages_crawled + 1
                 IN  /\ rows' = r
                     /\ canon_map' = cm
                     /\ duplicate_map' = dm
                     /\ out_links' = lp.out_links
                     /\ in_links' = lp.in_links
                     /\ image_rows' = ir
                     /\ pages_crawled' = n
                     /\ state_file' =
                            IF n % SAVE_EVERY = 0
                            THEN save_state(StateTuple(v, r, broken_links,
                                     lp.out_links, lp.in_links, dm, cm, ir))
                            ELSE state_file
                     /\ stack' = Append(below,
                            [url |-> url, depth |-> depth,
                             todo |-> lp.links_here])

crawl_frame == <<snapshots, site, cfg, run, phase, resumed, rp, audit_vars, tables,
                 recovering, loaded>>

\* Line 230: the loop over the seeds calls crawl(s, base_url, 0, rp).
CrawlSeed ==
    /\ phase = "crawl"
    /\ stack = <<>>
    /\ seeds_left # <<>>
    /\ seeds_left' = Tail(seeds_left)
    /\ CrawlCall(Head(seeds_left), 0, <<>>)
    /\ UNCHANGED crawl_frame

\* Lines 169-171: the innermost call takes the next link of links_here (a
\* set: any order) and crawls it when it is an internal http(s) URL.
CrawlLink ==
    /\ phase = "crawl"
    /\ stack # <<>>
    /\ LET top == stack[Len(stack)] IN
       \E link \in top.todo :
          LET below == [stack EXCEPT ![Len(stack)].todo = @ \ {link}] IN
          IF HasHttpScheme(link) /\ is_internal(base_url, link)
          THEN CrawlCall(link, top.depth + 1, below)
          ELSE /\ stack' = below
               /\ UNCHANGED <<containers, pages_crawled, state_file,
                              fetch_count, skipped, admitted>>
    /\ UNCHANGED <<seeds_left, crawl_frame>>

\* The loop of line 169 is over: the innermost call returns.
CrawlReturn ==
    /\ phase = "crawl"
    /\ stack # <<>>
    /\ stack[Len(stack)].todo = {}
    /\ stack' = SubSeq(stack, 1, Len(stack) - 1)
    /\ UNCHANGED <<containers, pages_crawled, state_file, fetch_count,
                   skipped, admitted, seeds_left, crawl_frame>>

\* The run is killed during the crawl phase (the browser tab is closed, the
\* server stops): what is in memory is lost, the state file stays.
Interrupt ==
    /\ phase = "crawl"
    /\ phase' = "interrupted"
    /\ FreshGlobals(EmptyState)
    /\ rp' = {}
    /\ seeds_left' = <<>>
    /\ loaded' = NothingLoaded
    /\ UNCHANGED <<snapshots, site, cfg, run, resumed, state_file, recovering>>

(***************************************************************************)
(* audit_links_and_images(), lines 175-216, run by line 232 once the loop  *)
(* over the seeds is over.                                                 *)
(***************************************************************************)
\* fetch_head(session, url): the status code, None when the request raises.
fetch_head(url) == site.head[url]

\* `code and ...` of lines 199 and 211: None and 0 are false.
Truthy(code) == code # None /\ code # 0

\* Line 184.
AllHrefs == UNION {out_links[src] : src \in DOMAIN out_links}
\* Line 185.
AllImgs == {image_rows[i].Image : i \in DOMAIN image_rows}

\* `await asyncio.gather(...)` of lines 189-190 resumes once every probe it
\* was given has returned.
GatherDoneEarly(p) == TRUE
GatherDone(p) == p = {}

\* Lines 184-189: the link probes are created and gathered.
AuditStart ==
    /\ phase = "crawl"
    /\ stack = <<>>
    /\ seeds_left = <<>>
    /\ phase' = "links"
    /\ pending' = AllHrefs
    /\ UNCHANGED <<snapshots, site, cfg, run, resumed, containers, pages_crawled,
                   state_file, rp, seeds_left, stack, status_map,
                   img_status, tables, fetch_count, skipped, recovering, loaded,
                   admitted>>

\* One probe of the running gather returns, in any order.
ProbeReturn ==
    /\ phase \in {"links", "imgs"}
    /\ \E u \in pending :
          /\ pending' = pending \ {u}
          /\ IF phase = "links"
             THEN /\ status_map' = Put(status_map, u, fetch_head(u))
                  /\ UNCHANGED img_status
             ELSE /\ img_status' = Put(img_status, u, fetch_head(u))
                  /\ UNCHANGED status_map
    /\ UNCHANGED <<snapshots, site, cfg, run, phase, resumed, containers,
                   pages_crawled, state_file, rp, seeds_left, stack, tables,
                   fetch_count, skipped, recovering, loaded,
                   admitted>>

\* Lines 189-190: every link probe is back; the image probes are gathered.
LinksGathered ==
    /\ phase = "links"
    /\ GatherDone(pending)
    /\ phase' = "imgs"
    /\ pending' = AllImgs
    /\ UNCHANGED <<snapshots, site, cfg, run, resumed, containers, pages_crawled,
                   state_file, rp, seeds_left, stack, status_map,
                   img_status, tables, fetch_count, skipped, recovering, loaded,
                   admitted>>

\* Lines 196-203: the records the loop appends to broken_links.
BrokenOf(ol, sm) ==
    { [Source |-> src, Href |-> t, Status |-> Get(sm, t, None),
       Type |-> IF is_internal(start_url, t) THEN "internal"
                ELSE "external"] :
      <<src, t>> \in { e \in (DOMAIN ol) \X URLs :
                         /\ e[2] \in ol[e[1]]
                         /\ Truthy(Get(sm, e[2], None))
                         /\ Get(sm, e[2], None) >= 400 } }

\* Lines 206-216: each image row gets its probed status.  The nested
\* asyncio.run of line 213 raises inside the running loop and the except
\* of line 215 drops it, so KB stays "" and is not modelled.
Annotate(ir, is) ==
    [i \in DOMAIN ir |->
        [ir[i] EXCEPT !.Annotated = TRUE,
                      !.Status = Get(is, ir[i].Image, None)]]

\* Lines 190-216: every image probe is back; the tables are built.
AuditJoin ==
    /\ phase = "imgs"
    /\ GatherDone(pending)
    /\ phase' = "audited"
    /\ broken_links' = BagAddAll(broken_links, BrokenOf(out_links, status_map))
    /\ image_rows' = Annotate(image_rows, img_status)
    /\ UNCHANGED <<snapshots, site, cfg, run, resumed, visited, rows, out_links,
                   in_links, duplicate_map, canon_map, pages_crawled,
                   state_file, rp, seeds_left, stack, audit_vars, tables,
                   fetch_count, skipped, recovering, loaded,
                   admitted>>

(***************************************************************************)
(* Lines 233-282: the state is saved and the diagnostics are computed.     *)
(***************************************************************************)
\* Lines 259-262.
DupClustersOfAll(dm) == dm
DupClustersOf(dm) ==
    [k \in {x \in DOMAIN dm : Len(dm[x]) > 1} |-> dm[k]]

\* Lines 268-273: the issue reported for a page src whose canonical is tgt,
\* "" when none is.
IssueOfUncrawled(src, tgt, cm, il) ==
    IF tgt = "" \/ tgt = src THEN ""
    ELSE IF tgt \in DOMAIN cm /\ cm[tgt] = src THEN "Loop"
    ELSE IF tgt \notin DOMAIN cm THEN "Points to non-crawled"
    ELSE ""
IssueOf(src, tgt, cm, il) ==
    IF tgt = "" \/ tgt = src THEN ""
    ELSE IF tgt \in DOMAIN cm /\ cm[tgt] = src THEN "Loop"
    ELSE IF tgt \notin DOMAIN il THEN "Points to non-crawled"
    ELSE ""

\* Lines 266-274.
CanIssuesOf(cm, il) ==
    BagAddAll(EmptyMap,
        { [Page |-> src, Target |-> cm[src],
           Issue |-> IssueOf(src, cm[src], cm, il)] :
          src \in {x \in DOMAIN cm : IssueOf(x, cm[x], cm, il) # ""} })

\* Lines 280-282, over the URLs of df (line 238).
OrphansOf(r, il) == {u \in RowURLs(r) : Get(il, u, 0) = 0}

\* pd.DataFrame(rows).drop_duplicates("URL") of line 238: the first row of
\* every URL.
drop_duplicates(r) ==
    SelectSeq([i \in DOMAIN r |->
                  IF \E j \in 1..(i - 1) : r[j].URL = r[i].URL
                  THEN [URL |-> ""] ELSE r[i]],
              LAMBDA x : x.URL # "")

\* Lines 337-338: df is written to the file named by the date, replacing
\* the file of that name if there is one.
to_parquet(h, date, df) == Put(h, date, df)

\* sorted(HISTORY_DIR.glob("*.parquet"))[-2:-1] of line 339: the last but
\* one of the dates that have a file, if there are two.
PrevFiles(h) ==
    IF Cardinality(DOMAIN h) < 2 THEN <<>>
    ELSE LET last == CHOOSE d \in DOMAIN h : \A e \in DOMAIN h : e <= d
         IN  <<CHOOSE d \in DOMAIN h \ {last} :
                   \A e \in DOMAIN h \ {last} : e <= d>>

Finish ==
    /\ phase = "audited"
    /\ phase' = "done"
    /\ state_file' = save_state(StateTuple(visited, rows, broken_links,
                         out_links, in_links, duplicate_map, canon_map,
                         image_rows))
    /\ IF rows = <<>>
       THEN UNCHANGED <<tables, snapshots>>      \* st.stop() of line 236
       ELSE /\ dup_clusters' = DupClustersOf(duplicate_map)
            /\ can_issues' = CanIssuesOf(canon_map, in_links)
            /\ orphans' = OrphansOf(rows, in_links)
            /\ \E d \in {today, today + 1} :
                  LET df == drop_duplicates(rows)
                      h == to_parquet(history, d, df)
                      prev_files == PrevFiles(h)
                  IN  /\ today' = d
                      /\ history' = h
                      /\ compared' = IF prev_files = <<>> THEN NoSnapshot
                                      ELSE [date |-> prev_files[1],
                                            df |-> h[prev_files[1]]]
                      /\ snap_log' = Append(snap_log,
                                            [date |-> d, df |-> df])
    /\ UNCHANGED <<site, cfg, run, resumed, containers, pages_crawled, rp,
                   seeds_left, stack, audit_vars, fetch_count, skipped,
                   recovering, loaded, admitted>>

Next ==
    \/ \E resume \in BOOLEAN, depth \in 0..MaxDepthTried :
          StartRun(resume, depth)
    \/ CrawlSeed
    \/ CrawlLink
    \/ CrawlReturn
    \/ Interrupt
    \/ AuditStart
    \/ ProbeReturn
    \/ LinksGathered
    \/ AuditJoin
    \/ Finish

Spec == Init /\ [][Next]_vars

\* A run nobody kills: the interpreter goes on executing the loop of line
\* 229 and the calls of crawl() it makes, every request being bounded by
\* its timeout (line 65), until line 232 is reached.
Uninterrupted ==
    \/ \E resume \in BOOLEAN, depth \in 0..MaxDepthTried :
          StartRun(resume, depth)
    \/ CrawlSeed
    \/ CrawlLink
    \/ CrawlReturn
    \/ AuditStart
    \/ ProbeReturn
    \/ LinksGathered
    \/ AuditJoin
    \/ Finish

LiveSpec ==
    /\ Init
    /\ [][Uninterrupted]_vars
    /\ WF_vars(CrawlSeed \/ CrawlLink \/ CrawlReturn \/ AuditStart)

(***************************************************************************)
(* Claims.                                                                 *)
(***************************************************************************)
\* Total number of copies the bag B holds of the elements of S.
RECURSIVE SumOver(_, _)
SumOver(B, S) ==
    IF S = {} THEN 0
    ELSE LET e == CHOOSE x \in S : TRUE IN B[e] + SumOver(B, S \ {e})

\* The recorded edges (source, target) of the link graph.
Edges == {e \in (DOMAIN out_links) \X URLs : e[2] \in out_links[e[1]]}

\* Number of BrokenLinkRecords for the edge (src, t).
BrokenCopies(src, t) ==
    SumOver(broken_links,
            {r \in DOMAIN broken_links : r.Source = src /\ r.Href = t})

\* C1: with a page budget N > 0 configured, a run never creates more than N
\* PageRecords (pages_crawled counts the PageRecords the run created).
C1_BudgetHaltsAdmission ==
    cfg.max_pages > 0 => pages_crawled <= cfg.max_pages

\* C2: after the audit, every recorded edge whose target probed with a
\* status >= 400 or was unreachable has a BrokenLinkRecord.
C2_UnreachableIsBroken ==
    phase \in {"audited", "done"} =>
        \A e \in Edges :
            (status_map[e[2]] = None \/ status_map[e[2]] >= 400)
                => BrokenCopies(e[1], e[2]) >= 1

\* C3: at the end of any run, fresh or resumed, there is exactly one
\* BrokenLinkRecord per edge whose target probed with a status >= 400 and
\* none for any other edge.
C3_OneRecordPerBrokenEdge ==
    phase = "done" =>
        /\ \A e \in Edges :
              BrokenCopies(e[1], e[2]) =
                  IF status_map[e[2]] # None /\ status_map[e[2]] >= 400
                  THEN 1 ELSE 0
        /\ \A r \in DOMAIN broken_links : <<r.Source, r.Href>> \in Edges

\* Number of DanglingTarget issues reported for page A.
DanglingCount(A) ==
    SumOver(can_issues,
            {r \in DOMAIN can_issues :
                r.Page = A /\ r.Issue = "Points to non-crawled"})

\* The parsed pages whose canonical target is non-empty, differs from the
\* page and was never crawled.
UncrawledCanonical ==
    {A \in DOMAIN canon_map :
        /\ canon_map[A] # ""
        /\ canon_map[A] # A
        /\ canon_map[A] \notin visited}

\* C4 as stated: every page whose canonical target was never crawled gets
\* exactly one DanglingTarget issue, whether or not an anchor points at the
\* target.
C4_DanglingWhateverTheAnchors ==
    phase = "done" => \A A \in UncrawledCanonical : DanglingCount(A) = 1

\* C4 as amended: a page whose canonical target was never crawled gets
\* exactly one DanglingTarget issue when no parsed page has an anchor
\* pointing at the target (the target is no key of the in-degree index),
\* and none when some parsed page has one.
C4_DanglingWhenNoAnchor ==
    phase = "done" =>
        \A A \in UncrawledCanonical :
            DanglingCount(A) =
                IF canon_map[A] \in DOMAIN in_links THEN 0 ELSE 1

C4_Witness ==
    /\ phase = "done"
    /\ \E A \in UncrawledCanonical :
          canon_map[A] \notin DOMAIN in_links /\ DanglingCount(A) = 1
    /\ \E A \in UncrawledCanonical : canon_map[A] \in DOMAIN in_links

\* C5: the in-degree recorded for a target equals the number of distinct
\* source pages whose out-adjacency set contains it.
C5_InDegreeCountsDistinctSources ==
    \A t \in URLs :
        Get(in_links, t, 0) =
            Cardinality({src \in DOMAIN out_links : t \in out_links[src]})

\* C6: a run never crashes; with resume requested and a corrupt saved state
\* it proceeds as a fresh run.
C6_CorruptStateFallsBack == phase # "crashed"

\* The pages every uninterrupted fresh run parses: the seeds that can be
\* parsed and, when max depth >= 1, the internal links of those seeds that
\* can be parsed.
Parsable(u) ==
    /\ Fetch(site, u) = "html"
    /\ u \notin fetch_robots(site)
    /\ allowed_path(cfg, u)
LinksOf(u) ==
    LinkProcessing(u, site.anchors[u],
        [links_here |-> {}, out_links |-> EmptyMap,
         in_links |-> EmptyMap]).links_here
ExpectedPages ==
    LET S == {u \in Range(Seeds(site)) : Parsable(u)}
    IN  S \cup {l \in URLs :
                  /\ cfg.max_depth >= 1
                  /\ Parsable(l)
                  /\ is_internal(base_url, l)
                  /\ \E u \in S : l \in LinksOf(u)}

\* An uninterrupted fresh run ends with a PageRecord for each of them
\* (holds; it shows that ExpectedPages does not overstate such a run).
FreshRunParsesExpected ==
    (phase = "done" /\ ~resumed) => ExpectedPages \subseteq RowURLs(rows)

\* C7: a run that resumes from the checkpoint of an interrupted run ends
\* with a PageRecord for every URL the uninterrupted run would have one for.
C7_ResumeLosesNothing ==
    (phase = "done" /\ recovering) => ExpectedPages \subseteq RowURLs(rows)

C9_AtMostOnePageRecord ==
    /\ [](\A i, j \in DOMAIN rows : rows[i].URL = rows[j].URL => i = j)
    /\ [][\A u \in URLs :
            (run' = run /\ u \in visited) =>
                /\ fetch_count'[u] <= fetch_count[u]
                /\ Cardinality({i \in DOMAIN rows' : rows'[i].URL = u})
                     <= Cardinality({i \in DOMAIN rows : rows[i].URL = u})
         ]_vars

C9_Witness ==
    /\ resumed
    /\ phase = "crawl"
    /\ Len(rows) >= 2
    /\ \E u \in RowURLs(rows) : <<u, "visited">> \in skipped

\* C10: the URL of every PageRecord is in VisitedSet, in memory and in every
\* state written to the state file.
C10_PageRecordsAreVisited ==
    /\ RowURLs(rows) \subseteq visited
    /\ state_file.kind = "ok" =>
           RowURLs(state_file.st.rows) \subseteq state_file.st.visited

C10_Witness ==
    /\ phase = "crawl"
    /\ pages_crawled = SAVE_EVERY
    /\ state_file.kind = "ok"
    /\ Len(state_file.st.rows) = SAVE_EVERY
    /\ RowURLs(state_file.st.rows) = state_file.st.visited

\* C11: in a run that resumed from a saved state, no URL of the loaded
\* VisitedSet is fetched and the loaded PageRecords stay where they were,
\* unchanged, until the run ends.
C11_ResumeKeepsLoadedState ==
    resumed =>
        /\ \A u \in loaded.visited : fetch_count[u] = 0
        /\ Len(rows) >= Len(loaded.rows)
        /\ SubSeq(rows, 1, Len(loaded.rows)) = loaded.rows

C11_Witness ==
    /\ resumed
    /\ phase = "done"
    /\ loaded.rows # <<>>
    /\ Len(rows) > Len(loaded.rows)
    /\ \E u \in loaded.visited : <<u, "visited">> \in skipped

\* C12: a URL whose fetch raises, answers a non-200 status or a non-HTML
\* content type has no PageRecord, no outbound edge and no image row; once
\* requested it is in VisitedSet and it is requested once in the run.
C12_FailedFetchIsVisitedOnce ==
    \A u \in URLs :
        site.kind[u] # "html" =>
            /\ u \notin RowURLs(rows)
            /\ u \notin DOMAIN out_links
            /\ \A i \in DOMAIN image_rows : image_rows[i].Page # u
            /\ fetch_count[u] <= 1
            /\ fetch_count[u] = 1 => u \in visited

C12_Witness ==
    /\ phase = "done"
    /\ \E u \in URLs :
          /\ site.kind[u] = "non200"
          /\ fetch_count[u] = 1
          /\ u \in visited
          /\ <<u, "visited">> \in skipped

\* The seed URLs of the run.
SeedSet == Range(Seeds(site))

\* No call of crawl() admits a URL at a depth above max depth.
AdmittedWithinDepth == \A ad \in admitted : ad[2] <= cfg.max_depth

\* C13 as stated: no URL is admitted at a depth above max depth; with max
\* depth = 0 VisitedSet only ever contains seed URLs, no other URL is
\* requested and every link that is no seed is skipped for depth.
C13_DepthZeroOnlySeeds ==
    /\ AdmittedWithinDepth
    /\ (cfg.max_depth = 0 /\ phase # "idle") =>
          /\ visited \subseteq SeedSet
          /\ \A u \in URLs \ SeedSet : fetch_count[u] = 0
          /\ \A sk \in skipped : sk[1] \notin SeedSet => sk[2] = "depth"

\* C13 as amended: no URL is admitted at a depth above max depth; with max
\* depth = 0 VisitedSet contains only seed URLs and the URLs loaded from
\* the saved state, no URL that is no seed is requested, and every link
\* that is neither a seed nor a loaded URL is skipped for depth.
C13_DepthZeroAddsOnlySeeds ==
    /\ AdmittedWithinDepth
    /\ (cfg.max_depth = 0 /\ phase # "idle") =>
          /\ visited \subseteq SeedSet \cup loaded.visited
          /\ \A u \in URLs \ SeedSet : fetch_count[u] = 0
          /\ \A sk \in skipped :
                sk[1] \notin SeedSet \cup loaded.visited => sk[2] = "depth"

C13_Witness ==
    /\ cfg.max_depth = 0
    /\ phase = "done"
    /\ ~resumed
    /\ visited = SeedSet
    /\ \E u \in URLs \ SeedSet : <<u, "depth">> \in skipped

\* C14: every reported DuplicateCluster holds at least 2 URLs, all distinct,
\* and two parsed URLs whose lower-cased, trimmed title+description keys
\* are equal are reported together in exactly one cluster.
C14_DuplicateClusters ==
    (phase = "done" /\ rows # <<>>) =>
        /\ \A k \in DOMAIN dup_clusters :
              /\ Len(dup_clusters[k]) >= 2
              /\ \A i, j \in DOMAIN dup_clusters[k] :
                    i # j => dup_clusters[k][i] # dup_clusters[k][j]
        /\ \A i, j \in DOMAIN rows :
              (/\ rows[i].URL # rows[j].URL
               /\ strip(lower(rows[i].Title \o rows[i].Description))
                    = strip(lower(rows[j].Title \o rows[j].Description)))
              => /\ Cardinality({k \in DOMAIN dup_clusters :
                        rows[i].URL \in Range(dup_clusters[k])}) = 1
                 /\ \E k \in DOMAIN dup_clusters :
                        {rows[i].URL, rows[j].URL}
                            \subseteq Range(dup_clusters[k])

C14_Witness ==
    /\ phase = "done"
    /\ resumed
    /\ Cardinality(DOMAIN dup_clusters) = 1
    /\ \E k \in DOMAIN dup_clusters : Len(dup_clusters[k]) = 2
    /\ \E i, j \in DOMAIN rows :
          /\ rows[i].Title # rows[j].Title
          /\ rows[i].Description # rows[j].Description
          /\ \E k \in DOMAIN dup_clusters :
                {rows[i].URL, rows[j].URL} = Range(dup_clusters[k])
    /\ Len(rows) = 3

\* C15: a snapshot written by a completed run is never modified or replaced
\* by a later run, each completed run adds one new dated snapshot, and the
\* differ compares the new snapshot with the one the preceding completed
\* run wrote.
C15_SnapshotsImmutable ==
    /\ \A i \in DOMAIN snap_log :
          /\ snap_log[i].date \in DOMAIN history
          /\ history[snap_log[i].date] = snap_log[i].df
    /\ Cardinality(DOMAIN history) = Len(snap_log)
    /\ compared = IF Len(snap_log) < 2 THEN NoSnapshot
                  ELSE snap_log[Len(snap_log) - 1]

\* What a step of a run does to URL u after a call of crawl() skipped it:
\* no admission, no request, no PageRecord.
StaysSkipped(u) ==
    /\ \A ad \in admitted' \ admitted : ad[1] # u
    /\ fetch_count'[u] <= fetch_count[u]
    /\ u \notin RowURLs(rows') \ RowURLs(rows)

AuditWrites ==
    \/ \E e \in DOMAIN broken_links' :
          Copies(broken_links', e) > Copies(broken_links, e)
    \/ \E i \in DOMAIN image_rows' :
          /\ image_rows'[i].Annotated
          /\ i \in DOMAIN image_rows => ~image_rows[i].Annotated

\* Every probe of the audit has returned: every distinct link target and
\* every distinct image URL has its result and none is outstanding.
AllProbesBack ==
    /\ pending = {}
    /\ DOMAIN status_map = AllHrefs
    /\ DOMAIN img_status = AllImgs

\* C17: the audit starts only after the crawl of every seed has returned,
\* every distinct link target and image URL recorded by then is probed, and
\* no BrokenLinkRecord is built and no image row annotated before every
\* probe has returned, whatever the order the probes complete in.
C17_AuditBehindBarriers ==
    /\ [](phase \in {"links", "imgs", "audited"} =>
              stack = <<>> /\ seeds_left = <<>>)
    /\ [](phase = "links" => pending \cup DOMAIN status_map = AllHrefs)
    /\ [](phase = "imgs" => /\ DOMAIN status_map = AllHrefs
                            /\ pending \cup DOMAIN img_status = AllImgs)
    /\ [][(run' = run /\ AuditWrites) => AllProbesBack]_vars

C17_Witness ==
    /\ phase = "audited"
    /\ Cardinality(DOMAIN status_map) >= 2
    /\ DOMAIN img_status # {}
    /\ broken_links # EmptyMap
    /\ \A i \in DOMAIN image_rows : image_rows[i].Annotated
    /\ ~resumed

\* C18: on any finite site, cycles and self links included, the crawl phase
\* of a run that is not killed terminates (every seed's call returns and the
\* audit is reached), and the nested calls of crawl() that admitted a URL
\* never number more than max depth + 1.
C18_CrawlTerminates ==
    /\ [](Len(stack) <= cfg.max_depth + 1)
    /\ (phase = "crawl") ~> (phase = "links")

C18_Witness ==
    /\ phase = "links"
    /\ cfg.max_depth = MaxDepthTried
    /\ \E ad \in admitted : ad[2] = MaxDepthTried
    /\ \E u \in visited :
          /\ u \in Range(site.anchors[u])
          /\ <<u, "visited">> \in skipped
    /\ \E u \in visited, w \in visited :
          /\ u # w
          /\ w \in Range(site.anchors[u])
          /\ u \in Range(site.anchors[w])

\* C19: every member of VisitedSet, seeds taken from the sitemap included,
\* has the registered domain of the base URL or an empty one, and no page
\* of another registered domain gets a PageRecord.
C19_VisitedIsInternal ==
    /\ \A u \in visited : is_internal(base_url, u)
    /\ \A u \in RowURLs(rows) : is_internal(base_url, u)

\* A URL lines 114, 115 and 170 let through.
Admissible(u) ==
    /\ is_internal(base_url, u)
    /\ u \notin fetch_robots(site)
    /\ allowed_path(cfg, u)

\* The admissible URLs a chain of at most k links leads to from a seed,
\* every page of the chain but the last being parsable.
RECURSIVE ReachWithin(_)
ReachWithin(k) ==
    IF k = 0 THEN {u \in SeedSet : Admissible(u)}
    ELSE LET R == ReachWithin(k - 1)
         IN  R \cup {l \in URLs :
                       /\ Admissible(l)
                       /\ \E u \in R : Parsable(u) /\ l \in LinksOf(u)}

\* C20: when a fresh crawl completes with no page budget and no fetch
\* failure, every internal URL within max depth links of a seed is in
\* VisitedSet and has its PageRecord, whatever the order the sibling links
\* of each page were traversed in.
C20_AllWithinDepthVisited ==
    (/\ phase = "done"
     /\ ~resumed
     /\ cfg.max_pages = 0
     /\ \A u \in URLs : Fetch(site, u) = "html")
    => /\ ReachWithin(cfg.max_depth) \subseteq visited
       /\ ReachWithin(cfg.max_depth) \subseteq RowURLs(rows)

====
